---- MODULE Spec2Model ----
(***************************************************************************)
(* Model of package sqlcmapper (mappers/v1/mapper.go): the six pgtype      *)
(* converters, AutoMapWithTags, AutoMapSliceWithTags and the reflective    *)
(* field walk autoMapWithTagsInterface with its helper toSnakeCase.        *)
(*                                                                         *)
(* Encoding.  A Go string is the sequence of its runes (code points).  A   *)
(* Go type is a sequence of tokens read left to right: "[]" and "*" are    *)
(* the slice and pointer constructors, "struct{V" is the anonymous struct  *)
(* with the single exported field V of the type that follows, and the last *)
(* token is a named type.  A Go value is a record                          *)
(*     [ty, s, nil, elems]                                                 *)
(* ty its dynamic type, s the payload of a scalar, nil the nil flag of a   *)
(* pointer or slice, elems the fields of a struct, the elements of a slice *)
(* or the pointee of a pointer.                                            *)
(***************************************************************************)
EXTENDS Integers, Sequences, FiniteSets, TLC

VARIABLES pc, call, ret, found, dbSlice, out, idx, stack

vars == <<pc, call, ret, found, dbSlice, out, idx, stack>>

-----------------------------------------------------------------------------
(* Bounds of the explored inputs.                                          *)

\* longest slice value, and longest input of AutoMapSliceWithTags
MaxLen == 2
\* struct nesting depth of the values of the self-referential type Node
MaxDepth == 2
\* most children of a Node value
MaxFanout == 1
\* longest field name handed to the field lookup
MaxNameLen == 2

-----------------------------------------------------------------------------
(* Runes.                                                                  *)

RuneUpperA == 65
RuneUpperZ == 90
RuneLowerA == 97
RuneUnderscore == 95

\* unicode.IsUpper on the runes that occur: ASCII and Latin-1 capitals.
\* A struct field is exported iff its name starts with such a rune.
IsUpperRune(c) == (c >= 65 /\ c <= 90) \/ (c >= 192 /\ c <= 222 /\ c # 215)

IsExported(name) == Len(name) > 0 /\ IsUpperRune(name[1])

-----------------------------------------------------------------------------
(* toSnakeCase.                                                            *)

\* One iteration of the loop of toSnakeCase: the text appended for rune c
\* at position i (1-based here; Go's byte index i > 0 iff not the first rune).
snakeRune(i, c) ==
    IF c >= RuneUpperA /\ c <= RuneUpperZ
    THEN (IF i > 1 THEN <<RuneUnderscore>> ELSE <<>>)
            \o <<c + (RuneLowerA - RuneUpperA)>>
    ELSE <<c>>

RECURSIVE snakeFrom(_, _)
snakeFrom(s, i) ==
    IF i > Len(s) THEN <<>> ELSE snakeRune(i, s[i]) \o snakeFrom(s, i + 1)

toSnakeCase(s) == snakeFrom(s, 1)

-----------------------------------------------------------------------------
(* Types.                                                                  *)

\* reflect.Kind of the named non-struct types that occur.  MyStr is a
\* caller-defined `type MyStr string`; pgtype.InfinityModifier is an int8;
\* time.Time is a struct whose fields are all unexported and which occurs
\* only as the payload of pgtype.Timestamptz.
BasicKind ==
    [n \in {"string", "MyStr", "float64", "int32", "bool", "[16]byte",
            "pgtype.InfinityModifier", "time.Time"} |->
        CASE n \in {"string", "MyStr"} -> "string"
          [] n = "[16]byte" -> "array"
          [] n = "pgtype.InfinityModifier" -> "int8"
          [] n = "time.Time" -> "struct"
          [] OTHER -> n]

F(name, ty, tag) == [name |-> name, ty |-> ty, tag |-> tag]

\* The six wrapper shapes of pgx/v5/pgtype, as the converters read them.
PgDecl ==
    [n \in {"pgtype.UUID", "pgtype.Text", "pgtype.Float8", "pgtype.Int4",
            "pgtype.Bool", "pgtype.Timestamptz"} |->
        CASE n = "pgtype.UUID" ->
               << F(<<66,121,116,101,115>>, <<"[16]byte">>, <<>>),       \* Bytes
                  F(<<86,97,108,105,100>>, <<"bool">>, <<>>) >>          \* Valid
          [] n = "pgtype.Text" ->
               << F(<<83,116,114,105,110,103>>, <<"string">>, <<>>),     \* String
                  F(<<86,97,108,105,100>>, <<"bool">>, <<>>) >>
          [] n = "pgtype.Float8" ->
               << F(<<70,108,111,97,116,54,52>>, <<"float64">>, <<>>),   \* Float64
                  F(<<86,97,108,105,100>>, <<"bool">>, <<>>) >>
          [] n = "pgtype.Int4" ->
               << F(<<73,110,116,51,50>>, <<"int32">>, <<>>),            \* Int32
                  F(<<86,97,108,105,100>>, <<"bool">>, <<>>) >>
          [] n = "pgtype.Bool" ->
               << F(<<66,111,111,108>>, <<"bool">>, <<>>),               \* Bool
                  F(<<86,97,108,105,100>>, <<"bool">>, <<>>) >>
          [] OTHER ->
               << F(<<84,105,109,101>>, <<"time.Time">>, <<>>),          \* Time
                  F(<<73,110,102,105,110,105,116,121,77,111,100,105,102,105,101,114>>,
                    <<"pgtype.InfinityModifier">>, <<>>),                \* InfinityModifier
                  F(<<86,97,108,105,100>>, <<"bool">>, <<>>) >>]

\* Field names and `db` tags of the record and model types below.
nID        == <<73,68>>                          \* "ID"
nName      == <<78,97,109,101>>                  \* "Name"
nname      == <<110,97,109,101>>                 \* "name"
nCreatedAt == <<67,114,101,97,116,101,100,65,116>>   \* "CreatedAt"
nUserId    == <<85,115,101,114,73,100>>          \* "UserId"
nUser_id   == <<85,115,101,114,95,105,100>>      \* "User_id"
nuser_id   == <<117,115,101,114,95,105,100>>     \* "user_id"
nEmail     == <<69,109,97,105,108>>              \* "Email"
nemail     == <<101,109,97,105,108>>             \* "email"
nPhone     == <<80,104,111,110,101>>             \* "Phone"
nphone     == <<112,104,111,110,101>>            \* "phone"
nChildren  == <<67,104,105,108,100,114,101,110>> \* "Children"
nEA        == <<201,65>>                         \* "ÉA"
nE_a       == <<201,95,97>>                      \* "É_a"
nV         == <<86>>                             \* "V"

\* The callers' types: the type arguments DB and Model of AutoMapWithTags.
\*   DBUser / User      the spec's scenario: three wrappers into plain fields
\*   DBAccount          a generated record with camel-case names
\*   DBSnake            a record whose field is literally user_id (unexported)
\*   DBAmbig            two fields whose snake-case forms coincide
\*   DBAccent           É_a and ÉA: an exact and a snake-case match for "É_a"
\*   Account            a model with db tags, one of them naming no source field
\*   Profile            a model without tags
\*   Accent             a model whose tag is "É_a"
\*   Priv               a model with an unexported field
\*   Node               a type with a sequence of its own type
UserDecl ==
    [n \in {"DBUser", "User", "DBAccount", "DBSnake", "DBAmbig", "DBAccent",
            "Account", "Profile", "Accent", "Priv", "Node"} |->
        CASE n = "DBUser" ->
               << F(nID, <<"pgtype.UUID">>, <<>>),
                  F(nName, <<"pgtype.Text">>, <<>>),
                  F(nCreatedAt, <<"pgtype.Timestamptz">>, <<>>) >>
          [] n = "User" ->
               << F(nID, <<"string">>, <<>>),
                  F(nName, <<"*", "string">>, <<>>),
                  F(nCreatedAt, <<"string">>, <<>>) >>
          [] n = "DBAccount" ->
               << F(nUserId, <<"string">>, <<>>),
                  F(nEmail, <<"pgtype.Text">>, <<>>) >>
          [] n = "DBSnake" ->
               << F(nuser_id, <<"string">>, <<>>) >>
          [] n = "DBAmbig" ->
               << F(nUserId, <<"string">>, <<>>),
                  F(nUser_id, <<"string">>, <<>>) >>
          [] n = "DBAccent" ->
               << F(nE_a, <<"string">>, <<>>),
                  F(nEA, <<"string">>, <<>>) >>
          [] n = "Account" ->
               << F(nUserId, <<"string">>, nuser_id),
                  F(nPhone, <<"*", "string">>, nphone),
                  F(nEmail, <<"*", "string">>, nemail) >>
          [] n = "Profile" ->
               << F(nUserId, <<"string">>, <<>>),
                  F(nEmail, <<"*", "string">>, <<>>) >>
          [] n = "Accent" ->
               << F(nV, <<"string">>, nE_a) >>
          [] n = "Priv" ->
               << F(nname, <<"MyStr">>, <<>>) >>
          [] OTHER ->
               << F(nName, <<"MyStr">>, <<>>),
                  F(nChildren, <<"[]", "Node">>, <<>>) >>]

StructNames == DOMAIN PgDecl \cup DOMAIN UserDecl

\* reflect.Type.Kind
Kind(T) ==
    CASE T = <<>> -> "invalid"
      [] Head(T) = "[]" -> "slice"
      [] Head(T) = "*" -> "ptr"
      [] Head(T) = "struct{V" -> "struct"
      [] Head(T) \in StructNames -> "struct"
      [] OTHER -> BasicKind[Head(T)]

\* reflect.Type.Elem of a slice or pointer type
ElemType(T) == Tail(T)

\* the fields of a struct type, in declaration order (reflect.Type.Field)
Fields(T) ==
    CASE Head(T) = "struct{V" -> << F(nV, Tail(T), <<>>) >>
      [] Head(T) \in DOMAIN PgDecl -> PgDecl[Head(T)]
      [] OTHER -> UserDecl[Head(T)]

NumField(T) == Len(Fields(T))

FieldNames(T) == [k \in 1..NumField(T) |-> Fields(T)[k].name]

\* Whether the type has a name (a defined or predeclared type); type
\* literals ([]T, *T, struct{...}) have none.
IsNamed(T) == Head(T) \notin {"[]", "*", "struct{V"}

\* The underlying type.  Of the named types that occur only MyStr has an
\* underlying type (string) that is itself in the universe; a named struct's
\* underlying type is a struct literal no other type here shares.
Underlying(T) == IF T = <<"MyStr">> THEN <<"string">> ELSE T

\* reflect.Type.AssignableTo (Go's assignability, without interfaces,
\* channels and untyped constants): identical types, or identical underlying
\* types when at least one of the two is not a named type.
AssignableTo(V, T) ==
    \/ V = T
    \/ /\ Underlying(V) = Underlying(T)
       /\ (~IsNamed(V) \/ ~IsNamed(T))

-----------------------------------------------------------------------------
(* Values.                                                                 *)

\* the zero reflect.Value (Kind Invalid): what reflect.ValueOf(nil), Elem of
\* a nil pointer and an unsuccessful FieldByNameFunc return
NoValue == [ty |-> <<>>, s |-> <<>>, nil |-> TRUE, elems |-> <<>>]

Scalar(T, p) == [ty |-> T, s |-> p, nil |-> FALSE, elems |-> <<>>]
NilOf(T) == [ty |-> T, s |-> <<>>, nil |-> TRUE, elems |-> <<>>]
\* a non-nil slice, a struct, or (with one element) a non-nil pointer
Composite(T, es) == [ty |-> T, s |-> <<>>, nil |-> FALSE, elems |-> es]

Str(runes) == Scalar(<<"string">>, runes)

\* 2024-01-02T03:04:05Z; 1999-12-31T23:59:59 at +05:30; 2006-01-02T15:04:05
\* at -07:00.  A time.Time is held as the civil date and time in its own
\* location, <<year, month, day, hour, minute, second>>, followed by the
\* location's offset east of UTC in seconds.
Times ==
    { <<2024, 1, 2, 3, 4, 5, 0>>,
      <<1999, 12, 31, 23, 59, 59, 19800>>,
      <<2006, 1, 2, 15, 4, 5, 0 - 25200>> }

\* the payloads explored for each scalar type; a float64 is held as an
\* integer (only integral values occur), a bool as 0 or 1
Payloads ==
    [n \in DOMAIN BasicKind |->
        CASE n = "string" -> { <<65,110,110>>, <<98>> }          \* "Ann", "b"
          [] n = "MyStr" -> { <<109>> }                          \* "m"
          [] n = "float64" -> { <<0>>, <<2>> }
          [] n = "int32" -> { <<0>>, <<7>> }
          [] n = "bool" -> { <<0>>, <<1>> }
          [] n = "[16]byte" ->
                { [i \in 1..16 |-> 0],
                  [i \in 1..16 |-> (i * 37 + 130) % 256] }
          [] n = "pgtype.InfinityModifier" -> { <<0>>, <<1>> }
          [] OTHER -> Times]

\* the zero payload of each scalar type; the zero time.Time is
\* January 1, year 1, 00:00:00 UTC
ZeroPayload ==
    [n \in DOMAIN BasicKind |->
        CASE BasicKind[n] = "string" -> <<>>
          [] n = "[16]byte" -> [i \in 1..16 |-> 0]
          [] n = "time.Time" -> <<1, 1, 1, 0, 0, 0, 0>>
          [] OTHER -> <<0>>]

RECURSIVE Zero(_)
\* reflect.New(T).Elem(): the zero value of type T
Zero(T) ==
    CASE Kind(T) \in {"slice", "ptr"} -> NilOf(T)
      [] Kind(T) = "struct" /\ Head(T) # "time.Time" ->
            Composite(T, [k \in 1..NumField(T) |-> Zero(Fields(T)[k].ty)])
      [] OTHER -> Scalar(T, ZeroPayload[Head(T)])

SeqsUpTo(S, n) == UNION { [1..k -> S] : k \in 0..n }

RECURSIVE ValuesOf(_, _)
\* Every value of type T with slices of at most MaxLen elements (MaxFanout
\* for a []Node); d is the number of Node levels that may still be entered.
ValuesOf(T, d) ==
    CASE Kind(T) = "slice" ->
            {NilOf(T)} \cup
            { Composite(T, es) :
                es \in SeqsUpTo(ValuesOf(ElemType(T), d),
                                IF ElemType(T) = <<"Node">> THEN MaxFanout ELSE MaxLen) }
      [] Kind(T) = "ptr" ->
            {NilOf(T)} \cup
            { Composite(T, <<v>>) : v \in ValuesOf(ElemType(T), d) }
      [] Kind(T) = "struct" /\ Head(T) # "time.Time" ->
            LET dd == IF T = <<"Node">> THEN d - 1 ELSE d
                fs == Fields(T)
                RECURSIVE Prod(_)
                Prod(k) ==
                    IF k = 0 THEN { <<>> }
                    ELSE { Append(es, v) : es \in Prod(k - 1),
                                           v \in ValuesOf(fs[k].ty, dd) }
            IN  IF dd < 0 THEN {} ELSE { Composite(T, es) : es \in Prod(Len(fs)) }
      [] OTHER -> { Scalar(T, p) : p \in Payloads[Head(T)] }

\* v.Field(k) of a struct value
FieldVal(v, k) == v.elems[k]

-----------------------------------------------------------------------------
(* Postgres helpers.                                                       *)

\* the Valid flag of a wrapper value (its last field)
Valid(w) == w.elems[Len(w.elems)].s = <<1>>
\* the payload field of a wrapper value (its first field)
Payload(w) == w.elems[1]

\* &x: a fresh pointer to a copy of x
AddrOf(x) == Composite(<<"*">> \o x.ty, <<x>>)

HexDigits == <<48, 49, 50, 51, 52, 53, 54, 55, 56, 57, 97, 98, 99, 100, 101, 102>>

RECURSIVE HexOf(_, _, _)
\* the lower-case hex text of bytes b[from..to]
HexOf(b, from, to) ==
    IF from > to THEN <<>>
    ELSE << HexDigits[(b[from] \div 16) + 1], HexDigits[(b[from] % 16) + 1] >>
            \o HexOf(b, from + 1, to)

\* uuid.UUID(b).String(): xxxxxxxx-xxxx-xxxx-xxxx-xxxxxxxxxxxx
UUIDString(b) ==
    HexOf(b, 1, 4) \o <<45>> \o HexOf(b, 5, 6) \o <<45>> \o HexOf(b, 7, 8)
        \o <<45>> \o HexOf(b, 9, 10) \o <<45>> \o HexOf(b, 11, 16)

\* n in decimal, zero-padded to two digits (0 <= n <= 99)
Dec2(n) == << 48 + (n \div 10), 48 + (n % 10) >>
\* n in decimal, zero-padded to four digits (0 <= n <= 9999)
Dec4(n) == Dec2(n \div 100) \o Dec2(n % 100)

\* t.Format(time.RFC3339), layout "2006-01-02T15:04:05Z07:00": the zone is
\* "Z" at offset 0 and sign, hours, ":", minutes otherwise
FormatRFC3339(t) ==
    LET off == t[7]
        a == IF off < 0 THEN 0 - off ELSE off
        zone == IF off = 0 THEN <<90>>
                ELSE << (IF off < 0 THEN 45 ELSE 43) >>
                        \o Dec2(a \div 3600) \o <<58>> \o Dec2((a % 3600) \div 60)
    IN  Dec4(t[1]) \o <<45>> \o Dec2(t[2]) \o <<45>> \o Dec2(t[3]) \o <<84>>
            \o Dec2(t[4]) \o <<58>> \o Dec2(t[5]) \o <<58>> \o Dec2(t[6]) \o zone

PgUUIDToString(id) ==
    IF ~Valid(id) THEN Str(<<>>) ELSE Str(UUIDString(Payload(id).s))

\* a faulty PgTextToStringPtr: Valid is not looked at
PgTextToStringPtrAlways(txt) == AddrOf(Payload(txt))

PgTextToStringPtr(txt) ==
    IF ~Valid(txt) THEN NilOf(<<"*", "string">>) ELSE AddrOf(Payload(txt))

PgFloat8ToFloat64Ptr(f) ==
    IF ~Valid(f) THEN NilOf(<<"*", "float64">>) ELSE AddrOf(Payload(f))

PgInt4ToInt32Ptr(i) ==
    IF ~Valid(i) THEN NilOf(<<"*", "int32">>) ELSE AddrOf(Payload(i))

PgBoolToBoolPtr(b) ==
    IF ~Valid(b) THEN NilOf(<<"*", "bool">>) ELSE AddrOf(Payload(b))

PgTimestamptzToString(ts) ==
    IF ~Valid(ts) THEN Str(<<>>) ELSE Str(FormatRFC3339(Payload(ts).s))

-----------------------------------------------------------------------------
(* Reflection-based AutoMapWithTags.                                       *)

\* What a call produces: the returned value and error, or a panic (a
\* reflect call on a value it does not accept).  The error is "nil"
\* throughout: no statement of the package creates one.
Ok(v) == [val |-> v, err |-> "nil", panicked |-> FALSE]
Failed(v, e) == [val |-> v, err |-> e, panicked |-> FALSE]
Panic == [val |-> NoValue, err |-> "nil", panicked |-> TRUE]

\* dbTag of a model field: its `db` tag, or its name when the tag is empty
DbTag(f) == IF f.tag = <<>> THEN f.name ELSE f.tag

\* a faulty MatchName: no snake-case fallback
MatchNameExact(name, dbTag) == name = dbTag

\* the match function handed to FieldByNameFunc
MatchName(name, dbTag) == name = dbTag \/ toSnakeCase(name) = dbTag

\* the fields, of a struct with field names `names`, the match function accepts
Matches(names, dbTag) ==
    { k \in 1..Len(names) : MatchName(names[k], dbTag) }

\* dbVal.FieldByNameFunc(match) on a struct without embedded fields whose
\* field names are `names`: the index of the one field that matches, 0 (no
\* field) when none matches and also when several do (reflect: "they cancel
\* each other").
FieldByNameFunc(names, dbTag) ==
    IF Cardinality(Matches(names, dbTag)) = 1
    THEN CHOOSE k \in Matches(names, dbTag) : TRUE
    ELSE 0

\* field.Set(x) on field i (descriptor f) of modelVal: panics when the field
\* is unexported or x is not assignable to the field's type
SetField(modelVal, i, f, x) ==
    IF ~IsExported(f.name) \/ ~AssignableTo(x.ty, f.ty) THEN Panic
    ELSE Ok([modelVal EXCEPT !.elems[i] = [x EXCEPT !.ty = f.ty]])

\* field.SetString(x) on a field of Kind String
SetString(modelVal, i, f, x) ==
    IF ~IsExported(f.name) THEN Panic
    ELSE Ok([modelVal EXCEPT !.elems[i] = Scalar(f.ty, x.s)])

IsPtrTo(T, kind) == Kind(T) = "ptr" /\ Kind(ElemType(T)) = kind

WrapperTypes == { <<n>> : n \in DOMAIN PgDecl }

\* the six wrapper cases of the type switch
WrapperCase(modelVal, i, f, dbField) ==
    CASE dbField.ty = <<"pgtype.UUID">> ->
            IF Kind(f.ty) = "string"
            THEN SetString(modelVal, i, f, PgUUIDToString(dbField))
            ELSE Ok(modelVal)
      [] dbField.ty = <<"pgtype.Text">> ->
            IF IsPtrTo(f.ty, "string")
            THEN SetField(modelVal, i, f, PgTextToStringPtr(dbField))
            ELSE Ok(modelVal)
      [] dbField.ty = <<"pgtype.Float8">> ->
            IF IsPtrTo(f.ty, "float64")
            THEN SetField(modelVal, i, f, PgFloat8ToFloat64Ptr(dbField))
            ELSE Ok(modelVal)
      [] dbField.ty = <<"pgtype.Int4">> ->
            IF IsPtrTo(f.ty, "int32")
            THEN SetField(modelVal, i, f, PgInt4ToInt32Ptr(dbField))
            ELSE Ok(modelVal)
      [] dbField.ty = <<"pgtype.Bool">> ->
            IF IsPtrTo(f.ty, "bool")
            THEN SetField(modelVal, i, f, PgBoolToBoolPtr(dbField))
            ELSE Ok(modelVal)
      [] OTHER ->
            IF Kind(f.ty) = "string"
            THEN SetString(modelVal, i, f, PgTimestamptzToString(dbField))
            ELSE Ok(modelVal)

\* the last test of the default case: a directly assignable value is copied
AssignCase(modelVal, i, f, dbField) ==
    IF AssignableTo(dbField.ty, f.ty)
    THEN SetField(modelVal, i, f, dbField)
    ELSE Ok(modelVal)

\* reflect.MakeSlice(T, n, n): n zero elements
MakeSlice(T, n) == Composite(T, [k \in 1..n |-> Zero(ElemType(T))])

\* dbVal after `if dbVal.Kind() == reflect.Ptr { dbVal = dbVal.Elem() }`
Deref(dbStruct) ==
    IF Kind(dbStruct.ty) = "ptr"
    THEN (IF dbStruct.nil THEN NoValue ELSE dbStruct.elems[1])
    ELSE dbStruct

\* a faulty MissingField: a model field without source field is a panic
MissingFieldPanics(modelVal) == Panic

\* `if !dbField.IsValid() { continue }`
MissingField(modelVal) == Ok(modelVal)

\* dbField: the source field FieldByNameFunc resolves for model field f
\* (NoValue when it resolves none)
ResolvedField(dbVal, f) ==
    LET k == FieldByNameFunc(FieldNames(dbVal.ty), DbTag(f))
    IN  IF k = 0 THEN NoValue ELSE FieldVal(dbVal, k)

\* a faulty FieldCase: the struct branch does not look at the kind of
\* dbField
FieldCaseAnySource(dbVal, f) ==
    LET k == FieldByNameFunc(FieldNames(dbVal.ty), DbTag(f))
        dbField == FieldVal(dbVal, k)
    IN  IF Kind(dbVal.ty) # "struct" THEN "non-struct source"
        ELSE IF k = 0 THEN "missing"
        ELSE IF ~IsExported(Fields(dbVal.ty)[k].name) THEN "unexported source"
        ELSE IF dbField.ty \in WrapperTypes THEN "wrapper"
        ELSE IF Kind(f.ty) = "struct" THEN "struct"
        ELSE IF Kind(f.ty) = "slice" /\ Kind(dbField.ty) = "slice" THEN "slice"
        ELSE "assign"

\* Which way the body of the field loop goes for model field f:
\*   "non-struct source"  FieldByNameFunc panics on a dbVal that is no struct
\*   "missing"            dbField is invalid: continue
\*   "unexported source"  dbField.Interface() panics
\*   "wrapper"            one of the six pgtype cases of the type switch
\*   "struct", "slice"    the two recursive branches of the default case
\*   "assign"             the AssignableTo test that ends the default case
FieldCase(dbVal, f) ==
    LET k == FieldByNameFunc(FieldNames(dbVal.ty), DbTag(f))
        dbField == FieldVal(dbVal, k)
    IN  IF Kind(dbVal.ty) # "struct" THEN "non-struct source"
        ELSE IF k = 0 THEN "missing"
        ELSE IF ~IsExported(Fields(dbVal.ty)[k].name) THEN "unexported source"
        ELSE IF dbField.ty \in WrapperTypes THEN "wrapper"
        ELSE IF Kind(f.ty) = "struct" /\ Kind(dbField.ty) = "struct" THEN "struct"
        ELSE IF Kind(f.ty) = "slice" /\ Kind(dbField.ty) = "slice" THEN "slice"
        ELSE "assign"

\* after a recursive call with outcome r for model field i: a panic goes on
\* up, an error is returned with modelVal as it stands (`return modelVal,
\* err`), and otherwise field.Set(r.val)
SetMapped(modelVal, i, f, r) ==
    IF r.panicked THEN Panic
    ELSE IF r.err # "nil" THEN Failed(modelVal, r.err)
    ELSE SetField(modelVal, i, f, r.val)

RECURSIVE autoMapWithTagsInterface(_, _)
RECURSIVE sliceLoop(_, _, _, _)
RECURSIVE sliceNext(_, _, _, _, _)
RECURSIVE mapField(_, _, _, _)
RECURSIVE fieldLoop(_, _, _, _)
RECURSIVE fieldNext(_, _, _, _)

autoMapWithTagsInterface(dbStruct, modelType) ==
    IF Kind(modelType) # "struct"
    THEN Panic                         \* modelVal.NumField() of a non-struct
    ELSE fieldLoop(Deref(dbStruct), modelType, 1, Zero(modelType))

\* `for i := 0; i < modelVal.NumField(); i++` from field i on
fieldLoop(dbVal, modelType, i, modelVal) ==
    IF i > NumField(modelType) THEN Ok(modelVal)
    ELSE fieldNext(dbVal, modelType, i, mapField(dbVal, modelType, i, modelVal))

\* the field loop after the body of field i had outcome r
fieldNext(dbVal, modelType, i, r) ==
    IF r.panicked \/ r.err # "nil" THEN r
    ELSE fieldLoop(dbVal, modelType, i + 1, r.val)

\* `for j := 0; j < dbField.Len(); j++` from element j on; the outcome holds
\* the mapped slice
sliceLoop(dbField, T, j, mappedSlice) ==
    IF j > Len(dbField.elems) THEN Ok(mappedSlice)
    ELSE sliceNext(dbField, T, j, mappedSlice,
                   autoMapWithTagsInterface(dbField.elems[j], ElemType(T)))

\* the slice loop after the call for element j had outcome r
sliceNext(dbField, T, j, mappedSlice, r) ==
    IF r.panicked \/ r.err # "nil" THEN r
    ELSE sliceLoop(dbField, T, j + 1, [mappedSlice EXCEPT !.elems[j] = r.val])

\* the body of the field loop for field i: the outcome holds modelVal after it
mapField(dbVal, modelType, i, modelVal) ==
    LET f == Fields(modelType)[i]
        dbField == ResolvedField(dbVal, f)
        branch == FieldCase(dbVal, f)
    IN  CASE branch = "non-struct source" -> Panic
          [] branch = "missing" -> MissingField(modelVal)
          [] branch = "unexported source" -> Panic
          [] branch = "wrapper" -> WrapperCase(modelVal, i, f, dbField)
          [] branch = "struct" ->
                SetMapped(modelVal, i, f,
                          autoMapWithTagsInterface(dbField, f.ty))
          [] branch = "slice" ->
                SetMapped(modelVal, i, f,
                          sliceLoop(dbField, f.ty, 1,
                                    MakeSlice(f.ty, Len(dbField.elems))))
          [] OTHER -> AssignCase(modelVal, i, f, dbField)

\* AutoMapWithTags[DB, Model](dbStruct)
Returned(Model, res) ==
    IF res.panicked THEN Panic
    ELSE IF res.err # "nil" THEN Failed(Zero(Model), res.err)
    ELSE Ok(res.val)

AutoMapWithTags(dbStruct, Model) ==
    Returned(Model, autoMapWithTagsInterface(dbStruct, Model))

-----------------------------------------------------------------------------
(* The explored inputs.                                                    *)

\* field types of the single-field records struct{V X} handed in as source
SrcFieldTypes ==
    WrapperTypes \cup
    { <<"string">>, <<"MyStr">>, <<"*", "string">>, <<"[]", "string">>,
      <<"struct{V", "string">>, <<"[]", "struct{V", "bool">>,
      <<"[]", "*", "struct{V", "bool">>, <<"DBAccount">>, <<"[]", "DBSnake">> }

\* field types of the single-field models struct{V Y}
TgtFieldTypes ==
    { <<"string">>, <<"MyStr">>, <<"*", "string">>, <<"*", "MyStr">>,
      <<"*", "float64">>, <<"*", "int32">>, <<"*", "bool">>, <<"float64">>,
      <<"pgtype.Text">>, <<"[]", "string">>, <<"struct{V", "string">>,
      <<"[]", "struct{V", "bool">>, <<"[]", "*", "struct{V", "bool">>,
      <<"Account">>, <<"[]", "Profile">> }

\* the type arguments DB: records, a pointer to a record, and a string
SourceTypes ==
    { <<"DBUser">>, <<"DBAccount">>, <<"DBSnake">>, <<"DBAmbig">>,
      <<"DBAccent">>, <<"Node">>, <<"*", "DBAccount">>, <<"string">> }
    \cup { <<"struct{V">> \o X : X \in SrcFieldTypes }

\* the type arguments Model: models, and a string
ModelTypes ==
    { <<"User">>, <<"Account">>, <<"Profile">>, <<"Accent">>, <<"Priv">>,
      <<"Node">>, <<"string">> }
    \cup { <<"struct{V">> \o Y : Y \in TgtFieldTypes }

SourceValues == UNION { ValuesOf(T, MaxDepth) : T \in SourceTypes }

\* the element types DB of the slices handed to AutoMapSliceWithTags
SliceElemTypes == { <<"DBAccount">>, <<"DBSnake">>, <<"struct{V", "[]", "string">> }

SourceSlices == UNION { ValuesOf(<<"[]">> \o T, MaxDepth) : T \in SliceElemTypes }

\* the runes of the field names handed to the lookup: 'D', 'd', '_'
NameRunes == {68, 100, 95}
NamesUpTo(n) == UNION { [1..k -> NameRunes] : k \in 1..n }

-----------------------------------------------------------------------------
(* The state machine: one caller that calls the package's functions one    *)
(* after the other.                                                        *)
(*   pc       "idle": no call made; "walk": inside AutoMapWithTags;        *)
(*            "slice": inside AutoMapSliceWithTags; "done": the call has   *)
(*            returned; "panic": the call panicked                         *)
(*   call     the call made: function, argument, type argument Model, and  *)
(*            for the field lookup the field names and the dbTag           *)
(*   ret      what the call returned                                       *)
(*   found    the field the lookup resolved (0: none)                      *)
(*   dbSlice, out, idx   AutoMapSliceWithTags: its argument, its out and   *)
(*            the position of its loop                                     *)
(*   stack    the activations of autoMapWithTagsInterface, innermost last  *)
(***************************************************************************)

NoCall == [fn |-> "", arg |-> NoValue, model |-> <<>>, names |-> <<>>, tag |-> <<>>]
Call(fn, arg, model) ==
    [fn |-> fn, arg |-> arg, model |-> model, names |-> <<>>, tag |-> <<>>]

\* An activation of autoMapWithTagsInterface: dbVal, modelType, the loop
\* index i (1-based), modelVal; and, inside the slice branch, the index j
\* (1-based; 0 outside the branch) and mappedSlice.
Frame(dbVal, modelType) ==
    [db |-> dbVal, ty |-> modelType, i |-> 1, val |-> Zero(modelType),
     j |-> 0, ms |-> NoValue]

Init ==
    /\ pc = "idle"
    /\ call = NoCall
    /\ ret = Ok(NoValue)
    /\ found = 0
    /\ dbSlice = NoValue
    /\ out = NoValue
    /\ idx = 0
    /\ stack = <<>>

Returns(c, r) ==
    /\ pc' = "done"
    /\ call' = c
    /\ ret' = r
    /\ UNCHANGED <<found, dbSlice, out, idx, stack>>

CallPgUUIDToString ==
    /\ pc = "idle"
    /\ \E id \in ValuesOf(<<"pgtype.UUID">>, 0) :
            Returns(Call("PgUUIDToString", id, <<>>), Ok(PgUUIDToString(id)))

CallPgTextToStringPtr ==
    /\ pc = "idle"
    /\ \E txt \in ValuesOf(<<"pgtype.Text">>, 0) :
            Returns(Call("PgTextToStringPtr", txt, <<>>), Ok(PgTextToStringPtr(txt)))

CallPgFloat8ToFloat64Ptr ==
    /\ pc = "idle"
    /\ \E f \in ValuesOf(<<"pgtype.Float8">>, 0) :
            Returns(Call("PgFloat8ToFloat64Ptr", f, <<>>), Ok(PgFloat8ToFloat64Ptr(f)))

CallPgInt4ToInt32Ptr ==
    /\ pc = "idle"
    /\ \E i \in ValuesOf(<<"pgtype.Int4">>, 0) :
            Returns(Call("PgInt4ToInt32Ptr", i, <<>>), Ok(PgInt4ToInt32Ptr(i)))

CallPgBoolToBoolPtr ==
    /\ pc = "idle"
    /\ \E b \in ValuesOf(<<"pgtype.Bool">>, 0) :
            Returns(Call("PgBoolToBoolPtr", b, <<>>), Ok(PgBoolToBoolPtr(b)))

CallPgTimestamptzToString ==
    /\ pc = "idle"
    /\ \E ts \in ValuesOf(<<"pgtype.Timestamptz">>, 0) :
            Returns(Call("PgTimestamptzToString", ts, <<>>), Ok(PgTimestamptzToString(ts)))

\* dbVal.FieldByNameFunc(...) for a record with the given field names
Lookup ==
    /\ pc = "idle"
    /\ \E names \in SeqsUpTo(NamesUpTo(MaxNameLen), 2),
          dbTag \in NamesUpTo(MaxNameLen + 1) :
            /\ Len(names) >= 1
            /\ \A a, b \in DOMAIN names : a # b => names[a] # names[b]
            /\ pc' = "done"
            /\ call' = [NoCall EXCEPT !.fn = "FieldByNameFunc",
                                      !.names = names, !.tag = dbTag]
            /\ found' = FieldByNameFunc(names, dbTag)
            /\ UNCHANGED <<ret, dbSlice, out, idx, stack>>

----

top == stack[Len(stack)]

\* a reflect call panics: the call never returns
Crash ==
    /\ pc' = "panic"
    /\ ret' = Panic
    /\ UNCHANGED <<call, found, dbSlice, out, idx, stack>>

\* autoMapWithTagsInterface(dbStruct, modelType) is entered
Enter(st, dbStruct, modelType) ==
    IF Kind(modelType) # "struct"
    THEN Crash                          \* modelVal.NumField() of a non-struct
    ELSE /\ stack' = Append(st, Frame(Deref(dbStruct), modelType))
         /\ pc' = "walk"
         /\ UNCHANGED <<ret, found, dbSlice, out, idx>>

\* AutoMapWithTags[DB, Model](dbStruct) is called
CallAutoMapWithTags ==
    /\ pc = "idle"
    /\ \E dbStruct \in SourceValues, Model \in ModelTypes :
            /\ call' = Call("AutoMapWithTags", dbStruct, Model)
            /\ IF Kind(Model) # "struct"
               THEN /\ pc' = "panic"
                    /\ ret' = Panic
                    /\ UNCHANGED <<found, dbSlice, out, idx, stack>>
               ELSE /\ stack' = <<Frame(Deref(dbStruct), Model)>>
                    /\ pc' = "walk"
                    /\ UNCHANGED <<ret, found, dbSlice, out, idx>>

\* the innermost activation goes on with field i + 1 after outcome r of the
\* body of its field loop
Continue(r) ==
    IF r.panicked THEN Crash
    ELSE /\ stack' = [stack EXCEPT ![Len(stack)].val = r.val,
                                   ![Len(stack)].i = top.i + 1,
                                   ![Len(stack)].j = 0,
                                   ![Len(stack)].ms = NoValue]
         /\ UNCHANGED <<pc, call, ret, found, dbSlice, out, idx>>

\* one pass through the body of the field loop, up to a recursive call
WalkField ==
    /\ pc = "walk"
    /\ top.j = 0
    /\ top.i <= NumField(top.ty)
    \* f, branch and dbField are bound once for the whole body
    /\ \E f \in {Fields(top.ty)[top.i]} :
       \E branch \in {FieldCase(top.db, f)} :
       \E dbField \in {IF branch = "non-struct source" THEN NoValue
                        ELSE ResolvedField(top.db, f)} :
           CASE branch \in {"non-struct source", "unexported source"} -> Crash
             [] branch = "missing" -> Continue(MissingField(top.val))
             [] branch = "wrapper" ->
                    Continue(WrapperCase(top.val, top.i, f, dbField))
             [] branch = "struct" ->
                    /\ Enter(stack, dbField, f.ty)
                    /\ UNCHANGED call
             [] branch = "slice" ->
                    /\ stack' = [stack EXCEPT
                                   ![Len(stack)].j = 1,
                                   ![Len(stack)].ms =
                                        MakeSlice(f.ty, Len(dbField.elems))]
                    /\ UNCHANGED <<pc, call, ret, found, dbSlice, out, idx>>
             [] OTHER -> Continue(AssignCase(top.val, top.i, f, dbField))

\* one pass through the slice loop: the recursive call for element j
WalkElem ==
    /\ pc = "walk"
    /\ top.j >= 1
    /\ LET f == Fields(top.ty)[top.i]
           dbField == ResolvedField(top.db, f)
       IN  /\ top.j <= Len(dbField.elems)
           /\ Enter(stack, dbField.elems[top.j], ElemType(f.ty))
           /\ UNCHANGED call

\* the slice loop is over: field.Set(mappedSlice); continue
WalkSliceDone ==
    /\ pc = "walk"
    /\ top.j >= 1
    /\ LET f == Fields(top.ty)[top.i]
           dbField == ResolvedField(top.db, f)
       IN  /\ top.j > Len(dbField.elems)
           /\ Continue(SetField(top.val, top.i, f, top.ms))

\* `return modelVal, nil`: the innermost activation returns to its caller,
\* which is the struct branch (field.Set(mappedField)), the slice loop
\* (mappedSlice.Index(j).Set(mappedElem)) or AutoMapWithTags
WalkReturn ==
    /\ pc = "walk"
    /\ top.j = 0
    /\ top.i > NumField(top.ty)
    /\ IF Len(stack) = 1
       THEN /\ pc' = "done"
            /\ ret' = Ok(top.val)
            /\ stack' = <<>>
            /\ UNCHANGED <<call, found, dbSlice, out, idx>>
       ELSE LET caller == stack[Len(stack) - 1]
                rest == SubSeq(stack, 1, Len(stack) - 1)
                f == Fields(caller.ty)[caller.i]
                set == SetField(caller.val, caller.i, f, top.val)
            IN  IF caller.j >= 1
                THEN /\ stack' = [rest EXCEPT
                                    ![Len(rest)].ms.elems[caller.j] = top.val,
                                    ![Len(rest)].j = caller.j + 1]
                     /\ UNCHANGED <<pc, call, ret, found, dbSlice, out, idx>>
                ELSE IF set.panicked
                THEN Crash
                ELSE /\ stack' = [rest EXCEPT ![Len(rest)].val = set.val,
                                              ![Len(rest)].i = caller.i + 1]
                     /\ UNCHANGED <<pc, call, ret, found, dbSlice, out, idx>>

----

\* make([]Model, n)
MakeOut(Model, n) == MakeSlice(<<"[]">> \o Model, n)

\* a faulty StoreMapped: every element is written to out[0]
StoreMappedAtZero(o, i, mapped) == [o EXCEPT !.elems[1] = mapped]

\* out[i] = mapped
StoreMapped(o, i, mapped) == [o EXCEPT !.elems[i] = mapped]

\* AutoMapSliceWithTags[DB, Model](dbSlice) is called:
\* out := make([]Model, len(dbSlice))
CallAutoMapSliceWithTags ==
    /\ pc = "idle"
    /\ \E s \in SourceSlices, Model \in ModelTypes :
            /\ pc' = "slice"
            /\ call' = Call("AutoMapSliceWithTags", s, Model)
            /\ dbSlice' = s
            /\ out' = MakeOut(Model, Len(s.elems))
            /\ idx' = 1
            /\ UNCHANGED <<ret, found, stack>>

\* mapped, err := AutoMapWithTags[DB, Model](dbItem) for the i-th item
MappedItem(i) == AutoMapWithTags(dbSlice.elems[i], call.model)

\* one pass through `for i, dbItem := range dbSlice`
SliceStep ==
    /\ pc = "slice"
    /\ idx <= Len(dbSlice.elems)
    /\ LET r == MappedItem(idx)
       IN  IF r.panicked
           THEN /\ pc' = "panic"
                /\ ret' = Panic
                /\ UNCHANGED <<out, idx>>
           ELSE IF r.err # "nil"
           THEN /\ pc' = "done"
                /\ ret' = Failed(NilOf(out.ty), r.err)
                /\ UNCHANGED <<out, idx>>
           ELSE /\ out' = StoreMapped(out, idx, r.val)
                /\ idx' = idx + 1
                /\ UNCHANGED <<pc, ret>>
    /\ UNCHANGED <<call, found, dbSlice, stack>>

\* `return out, nil`
SliceReturn ==
    /\ pc = "slice"
    /\ idx > Len(dbSlice.elems)
    /\ pc' = "done"
    /\ ret' = Ok(out)
    /\ UNCHANGED <<call, found, dbSlice, out, idx, stack>>

\* the caller goes on to its next call
NextCall ==
    /\ pc = "done"
    /\ pc' = "idle"
    /\ call' = NoCall
    /\ ret' = Ok(NoValue)
    /\ found' = 0
    /\ dbSlice' = NoValue
    /\ out' = NoValue
    /\ idx' = 0
    /\ stack' = <<>>

Next ==
    \/ CallPgUUIDToString
    \/ CallPgTextToStringPtr
    \/ CallPgFloat8ToFloat64Ptr
    \/ CallPgInt4ToInt32Ptr
    \/ CallPgBoolToBoolPtr
    \/ CallPgTimestamptzToString
    \/ Lookup
    \/ CallAutoMapWithTags
    \/ WalkField
    \/ WalkElem
    \/ WalkSliceDone
    \/ WalkReturn
    \/ CallAutoMapSliceWithTags
    \/ SliceStep
    \/ SliceReturn
    \/ NextCall

Spec == Init /\ [][Next]_vars

\* a step of a call of AutoMapWithTags that has begun
WalkStep == WalkField \/ WalkElem \/ WalkSliceDone \/ WalkReturn

\* A call of AutoMapWithTags that has begun is carried on: the function is
\* sequential code without a suspension point, whose next statement is
\* executed as long as there is one.
FairSpec == Spec /\ WF_vars(WalkStep)

-----------------------------------------------------------------------------
(* The walk and the recursive definition agree.                            *)

MapOneCall == call.fn = "AutoMapWithTags"
MapManyCall == call.fn = "AutoMapSliceWithTags"

\* The activations of the walk compute what autoMapWithTagsInterface,
\* written as a recursive function, gives: the same result on return, and
\* a panic exactly when it panics.
WalkAgrees ==
    MapOneCall =>
        /\ pc = "done" => ret = AutoMapWithTags(call.arg, call.model)
        /\ pc = "panic" => AutoMapWithTags(call.arg, call.model).panicked

-----------------------------------------------------------------------------
(* The claims.                                                             *)

\* C1: when AutoMapSliceWithTags returns no error, its output has exactly
\* len(dbSlice) elements and its i-th element is AutoMapWithTags of the i-th
\* input element, for every input slice, the empty and the nil one included.
C1_LengthAndOrder ==
    (pc = "done" /\ MapManyCall /\ ret.err = "nil") =>
        /\ ~ret.val.nil
        /\ ret.val.ty = <<"[]">> \o call.model
        /\ Len(ret.val.elems) = Len(call.arg.elems)
        /\ \A i \in 1..Len(call.arg.elems) :
              /\ ~AutoMapWithTags(call.arg.elems[i], call.model).panicked
              /\ AutoMapWithTags(call.arg.elems[i], call.model).err = "nil"
              /\ ret.val.elems[i] =
                    AutoMapWithTags(call.arg.elems[i], call.model).val

\* AutoMapSliceWithTags has returned two elements that differ, neither of
\* them the zero model
C1_Witness ==
    /\ pc = "done" /\ MapManyCall /\ ret.err = "nil"
    /\ Len(ret.val.elems) = 2
    /\ ret.val.elems[1] # ret.val.elems[2]
    /\ ret.val.elems[1] # Zero(call.model)
    /\ ret.val.elems[2] # Zero(call.model)

ConverterNames ==
    { "PgUUIDToString", "PgTextToStringPtr", "PgFloat8ToFloat64Ptr",
      "PgInt4ToInt32Ptr", "PgBoolToBoolPtr", "PgTimestamptzToString" }

\* C4: each converter returns (no error, no panic) on every wrapper value;
\* for Valid = false PgUUIDToString and PgTimestamptzToString return "" and
\* the four pointer converters return nil, whatever the payload; for Valid =
\* true the pointer converters return a non-nil pointer to exactly the
\* payload, and the two string converters the text of the payload alone.
C4_Converters ==
    (pc = "done" /\ call.fn \in ConverterNames) =>
        /\ ~ret.panicked /\ ret.err = "nil"
        /\ IF call.fn \in {"PgUUIDToString", "PgTimestamptzToString"}
           THEN /\ ret.val.ty = <<"string">>
                /\ call.arg.elems[Len(call.arg.elems)].s # <<1>> => ret.val.s = <<>>
                /\ (call.arg.elems[Len(call.arg.elems)].s = <<1>>
                        /\ call.fn = "PgUUIDToString")
                     => ret.val.s = UUIDString(call.arg.elems[1].s)
                /\ (call.arg.elems[Len(call.arg.elems)].s = <<1>>
                        /\ call.fn = "PgTimestamptzToString")
                     => ret.val.s = FormatRFC3339(call.arg.elems[1].s)
           ELSE /\ ret.val.ty = <<"*">> \o call.arg.elems[1].ty
                /\ call.arg.elems[2].s # <<1>> => (ret.val.nil /\ ret.val.elems = <<>>)
                /\ call.arg.elems[2].s = <<1>> =>
                      (~ret.val.nil /\ ret.val.elems = <<call.arg.elems[1]>>)

\* PgTextToStringPtr has returned nil for an invalid wrapper whose payload
\* is not empty
C4_Witness ==
    /\ pc = "done" /\ call.fn = "PgTextToStringPtr"
    /\ call.arg.elems[2].s = <<0>>
    /\ call.arg.elems[1].s # <<>>
    /\ ret.val.nil

\* AutoMapWithTags was called with a record, or a pointer to one, and a
\* struct type Model
RecordCall ==
    /\ MapOneCall
    /\ Kind(Deref(call.arg).ty) = "struct"
    /\ Kind(call.model) = "struct"

\* the index of the source field that model field f resolves to in dbVal,
\* 0 when it resolves to none
Resolved(dbVal, f) == FieldByNameFunc(FieldNames(dbVal.ty), DbTag(f))

\* the innermost activation panicked in the body of its field loop
PanicInField ==
    /\ pc = "panic" /\ stack # <<>>
    /\ top.j = 0 /\ top.i <= NumField(top.ty)
    /\ Kind(top.db.ty) = "struct"

\* C3: a model field whose expected name resolves to no source field is
\* left at its zero value, the other fields hold what their own branch of
\* the field loop gives, the error returned is nil, and no activation ever
\* panics at a field that resolves to no source field.
C3_MissingFieldTolerated ==
    /\ PanicInField => Resolved(top.db, Fields(top.ty)[top.i]) # 0
    /\ (pc = "done" /\ RecordCall) =>
          /\ ret.err = "nil"
          /\ \A i \in 1..NumField(call.model) :
                IF Resolved(Deref(call.arg), Fields(call.model)[i]) = 0
                THEN ret.val.elems[i] = Zero(Fields(call.model)[i].ty)
                ELSE ret.val.elems[i] =
                        mapField(Deref(call.arg), call.model, i,
                                 Zero(call.model)).val.elems[i]

\* AutoMapWithTags has returned a model with one field that resolved to no
\* source field and is zero, and another field that is not zero
C3_Witness ==
    /\ pc = "done" /\ RecordCall /\ ret.err = "nil"
    /\ \E i, j \in 1..NumField(call.model) :
          /\ Resolved(Deref(call.arg), Fields(call.model)[i]) = 0
          /\ ret.val.elems[i] = Zero(Fields(call.model)[i].ty)
          /\ Resolved(Deref(call.arg), Fields(call.model)[j]) # 0
          /\ ret.val.elems[j] # Zero(Fields(call.model)[j].ty)

\* C2, as the code has it: the conversion to snake case is applied to the
\* SOURCE field's name.  A string model field whose expected name is
\* user_id receives, when AutoMapWithTags returns, the value of the string
\* source field UserId if that is the only source field whose name is, or
\* converts to, user_id; a model field named UserId without a db tag stays
\* zero when the only source field is user_id.
C2_SnakeOfSourceName ==
    (pc = "done" /\ RecordCall) =>
        \A i \in 1..NumField(call.model) :
            \A k \in 1..NumField(Deref(call.arg).ty) :
                LET f == Fields(call.model)[i]
                    src == Fields(Deref(call.arg).ty)
                IN  /\ ( /\ DbTag(f) = nuser_id
                         /\ src[k].name = nUserId
                         /\ \A m \in DOMAIN src : m # k =>
                               /\ src[m].name # nuser_id
                               /\ toSnakeCase(src[m].name) # nuser_id
                         /\ f.ty = <<"string">> /\ src[k].ty = <<"string">> )
                       => ret.val.elems[i] = Deref(call.arg).elems[k]
                    /\ ( /\ f.name = nUserId /\ f.tag = <<>>
                         /\ src[k].name = nuser_id
                         /\ Len(src) = 1 )
                       => ret.val.elems[i] = Zero(f.ty)

\* AutoMapWithTags has returned a model whose field with db tag user_id
\* holds the non-empty value of source field UserId
C2_Witness ==
    /\ pc = "done" /\ RecordCall
    /\ \E i \in 1..NumField(call.model) :
          \E k \in 1..NumField(Deref(call.arg).ty) :
              /\ DbTag(Fields(call.model)[i]) = nuser_id
              /\ Fields(Deref(call.arg).ty)[k].name = nUserId
              /\ ret.val.elems[i] = Deref(call.arg).elems[k]
              /\ ret.val.elems[i].s # <<>>

\* C2, as the claim has it: a model field named UserId without a db tag
\* receives the value of source field user_id whenever the source has no
\* field named UserId.
C2_Original ==
    (pc \in {"done", "panic"} /\ RecordCall) =>
        \A i \in 1..NumField(call.model) :
            \A k \in 1..NumField(Deref(call.arg).ty) :
                LET f == Fields(call.model)[i]
                    src == Fields(Deref(call.arg).ty)
                IN  ( /\ f.name = nUserId /\ f.tag = <<>>
                      /\ src[k].name = nuser_id
                      /\ \A m \in DOMAIN src : src[m].name # nUserId )
                    => /\ pc = "done"
                       /\ ret.val.elems[i].s = Deref(call.arg).elems[k].s

\* C7, as the claim has it, for exported field names: when a source field
\* is named exactly as expected, the lookup resolves that field, whatever
\* the other names convert to; a field found without an exact match
\* converts to the expected name; and the lookup finds a field whenever
\* some source field's name is, or converts to, the expected name.  For
\* AutoMapWithTags and string fields: on return the model field has the
\* value of the source field named exactly as expected when there is one,
\* and the value of a matching source field when there is any.
C7_Original ==
    /\ ( /\ pc = "done" /\ call.fn = "FieldByNameFunc"
         /\ \A k \in DOMAIN call.names : IsExported(call.names[k]) ) =>
          /\ (\E k \in DOMAIN call.names : call.names[k] = call.tag) =>
                (found # 0 /\ call.names[found] = call.tag)
          /\ (\E k \in DOMAIN call.names :
                    toSnakeCase(call.names[k]) = call.tag) => found # 0
          /\ found # 0 =>
                \/ call.names[found] = call.tag
                \/ toSnakeCase(call.names[found]) = call.tag
    /\ (pc = "done" /\ RecordCall) =>
          \A i \in 1..NumField(call.model) :
              LET f == Fields(call.model)[i]
                  src == Fields(Deref(call.arg).ty)
                  hits == { k \in DOMAIN src :
                              \/ src[k].name = DbTag(f)
                              \/ toSnakeCase(src[k].name) = DbTag(f) }
                  exact == { k \in hits : src[k].name = DbTag(f) }
              IN  ( /\ f.ty = <<"string">> /\ IsExported(f.name)
                    /\ \A k \in hits : /\ IsExported(src[k].name)
                                       /\ src[k].ty = <<"string">> )
                  => /\ exact # {} =>
                          \E k \in exact :
                              ret.val.elems[i] = Deref(call.arg).elems[k]
                     /\ hits # {} =>
                          \E k \in hits :
                              ret.val.elems[i] = Deref(call.arg).elems[k]

\* the converter of the type switch's case for wrapper value w
ConverterResult(w) ==
    CASE w.ty = <<"pgtype.UUID">> -> PgUUIDToString(w)
      [] w.ty = <<"pgtype.Text">> -> PgTextToStringPtr(w)
      [] w.ty = <<"pgtype.Float8">> -> PgFloat8ToFloat64Ptr(w)
      [] w.ty = <<"pgtype.Int4">> -> PgInt4ToInt32Ptr(w)
      [] w.ty = <<"pgtype.Bool">> -> PgBoolToBoolPtr(w)
      [] OTHER -> PgTimestamptzToString(w)

\* T is the output shape of the converter for wrapper type W: textual for
\* pgtype.UUID and pgtype.Timestamptz, the converter's pointer type for the
\* other four
OutputShape(W, T) ==
    IF W \in {<<"pgtype.UUID">>, <<"pgtype.Timestamptz">>}
    THEN Kind(T) = "string"
    ELSE T = ConverterResult(Zero(W)).ty

\* C8, as the claim has it: when the resolved source field is one of the
\* six wrappers, no activation panics at that field, and on return the
\* model field holds the converter's result if its type is the converter's
\* output shape and its zero value if it is any other type, the wrapper
\* type itself included; the error is nil.
C8_Original ==
    /\ PanicInField =>
          FieldCase(top.db, Fields(top.ty)[top.i]) # "wrapper"
    /\ (pc = "done" /\ RecordCall) =>
          /\ ret.err = "nil"
          /\ \A i \in 1..NumField(call.model) :
                LET f == Fields(call.model)[i]
                    w == ResolvedField(Deref(call.arg), f)
                IN  FieldCase(Deref(call.arg), f) = "wrapper" =>
                        IF OutputShape(w.ty, f.ty)
                        THEN /\ ret.val.elems[i].s = ConverterResult(w).s
                             /\ ret.val.elems[i].nil = ConverterResult(w).nil
                             /\ ret.val.elems[i].elems = ConverterResult(w).elems
                        ELSE ret.val.elems[i] = Zero(f.ty)

\* every field name of type T, and of the types nested in it, is exported
\* (time.Time, whose fields the mapper never reaches, is not looked into)
RECURSIVE AllExported(_, _)
AllExported(T, seen) ==
    CASE Head(T) = "struct{V" \/ Head(T) \in StructNames ->
            \/ T \in seen
            \/ \A k \in 1..NumField(T) :
                  /\ IsExported(Fields(T)[k].name)
                  /\ AllExported(Fields(T)[k].ty, seen \cup {T})
      [] Kind(T) \in {"slice", "ptr"} -> AllExported(ElemType(T), seen)
      [] OTHER -> TRUE

\* C9, as the claim has it: for a source record and a model type whose
\* fields are scalars, pointers to scalars, structs and slices of these
\* (all field names exported), AutoMapWithTags returns a nil error and does
\* not panic.  The panics of the wrapper cases of the type switch are left
\* to C8: a panic anywhere else refutes this.
C9_Original ==
    ( /\ RecordCall
      /\ AllExported(call.arg.ty, {})
      /\ AllExported(call.model, {}) )
    => /\ pc = "panic" =>
             /\ PanicInField
             /\ FieldCase(top.db, Fields(top.ty)[top.i]) = "wrapper"
       /\ pc = "done" => ret.err = "nil"

\* C6, as the claim has it: when the resolved source field and the model
\* field are both slices, AutoMapWithTags returns, and the model field is
\* then a non-nil slice as long as the source slice whose j-th element is
\* autoMapWithTagsInterface of the j-th source element.
C6_Original ==
    (pc \in {"done", "panic"} /\ RecordCall) =>
        \A i \in 1..NumField(call.model) :
            LET f == Fields(call.model)[i]
                dbField == ResolvedField(Deref(call.arg), f)
            IN  FieldCase(Deref(call.arg), f) = "slice" =>
                    /\ pc = "done"
                    /\ ~ret.val.elems[i].nil
                    /\ Len(ret.val.elems[i].elems) = Len(dbField.elems)
                    /\ \A j \in 1..Len(dbField.elems) :
                          ret.val.elems[i].elems[j] =
                             autoMapWithTagsInterface(dbField.elems[j],
                                                      ElemType(f.ty)).val

\* the largest member of a finite set of naturals, 0 for the empty set
Max(S) == IF S = {} THEN 0 ELSE CHOOSE x \in S : \A y \in S : y <= x

\* The nesting depth of the definition of type T: the most struct types on
\* a chain of field, element and pointee types that starts at T, a type
\* that is met again on the chain counted once.
RECURSIVE TypeDepth(_, _)
TypeDepth(T, seen) ==
    CASE Head(T) = "struct{V" \/ Head(T) \in StructNames ->
            IF T \in seen THEN 0
            ELSE 1 + Max({ TypeDepth(Fields(T)[k].ty, seen \cup {T}) :
                              k \in 1..NumField(T) })
      [] Kind(T) \in {"slice", "ptr"} -> TypeDepth(ElemType(T), seen)
      [] OTHER -> 0

\* type T contains itself: a chain that starts at T meets a struct type twice
RECURSIVE SelfReferential(_, _)
SelfReferential(T, seen) ==
    CASE Head(T) = "struct{V" \/ Head(T) \in StructNames ->
            \/ T \in seen
            \/ \E k \in 1..NumField(T) :
                  SelfReferential(Fields(T)[k].ty, seen \cup {T})
      [] Kind(T) \in {"slice", "ptr"} -> SelfReferential(ElemType(T), seen)
      [] OTHER -> FALSE

\* The nesting depth of value v: the most structs and slices on a chain of
\* fields and elements that starts at v; a pointer adds nothing to it.
RECURSIVE Height(_)
Height(v) ==
    CASE Kind(v.ty) = "ptr" -> IF v.nil THEN 0 ELSE Height(v.elems[1])
      [] Kind(v.ty) \in {"struct", "slice"} ->
            1 + Max({ Height(v.elems[k]) : k \in DOMAIN v.elems })
      [] OTHER -> 0

\* the bound on the activations of autoMapWithTagsInterface that holds
DepthBounded ==
    MapOneCall =>
        /\ ~SelfReferential(call.model, {}) =>
              Len(stack) <= TypeDepth(call.model, {})
        /\ RecordCall => Len(stack) <= Height(call.arg)

====
